---- MODULE Spec2Model ----
(***************************************************************************)
(* Bayesian Probabilistic Tensor Factorization (imputer/BPTF.ipynb).       *)
(*                                                                         *)
(* The model follows one activation of BPTF statement by statement.  The   *)
(* activation's frame (locals, the caller's arrays it aliases, the text it *)
(* printed) is the record st; every step of the code is an operator that   *)
(* maps a frame and the random draws of that step to the next frame.       *)
(*                                                                         *)
(* Numbers.  The latent rank is 1, so a factor matrix is a column of       *)
(* scalars, a precision matrix is a positive scalar, cholesky is a square  *)
(* root and solve is a division.  Reals are quantised to integers: every   *)
(* real quotient is rounded to the nearest integer (Quot), every square    *)
(* root is an integer square root, a precision is at least 1.  Input       *)
(* cells, which may hold NaN, are one-element tuples <<v>>, NaN is the     *)
(* empty tuple.  Exact quotients that are reported (the returned tensor,   *)
(* the metrics) are fractions <<n, d>>.                                    *)
(* Indices are 0-based as in the source.                                   *)
(*                                                                         *)
(* Randomness.  numpy's generator is a seeded stream: rng is its state,    *)
(* every draw reads it and advances it.  The seed is an input.             *)
(***************************************************************************)
EXTENDS Integers, Sequences, FiniteSets, TLC

VARIABLES st, tw

vars == <<st, tw>>

(* ---------------------------------------------------------------------- *)
(* Bounds of the model.                                                    *)
(* ---------------------------------------------------------------------- *)
MaxD3 == 3
MaxBurn == 1
MaxGibbs == 2
\* The noise precision is quantised to 1 .. TauMax.
TauMax == 3
\* Seeds of the generator: 0 .. MaxSeed.
MaxSeed == 3

(* ---------------------------------------------------------------------- *)
(* Program constants.                                                      *)
(* ---------------------------------------------------------------------- *)
beta0 == 1
show_iter == 200
tau0 == 1
\* 1 / 1e-6, the constant of sample_precision_tau.
Micro == 1000000

(* ---------------------------------------------------------------------- *)
(* Floats.                                                                 *)
(* ---------------------------------------------------------------------- *)
NaN == <<>>
isnan(c) == c = NaN
Cell(v) == <<v>>
Val(c) == c[1]

Abs(x) == IF x < 0 THEN -x ELSE x
Max(a, b) == IF a >= b THEN a ELSE b
Min(a, b) == IF a <= b THEN a ELSE b

RECURSIVE Gcd(_, _)
Gcd(a, b) == IF b = 0 THEN a ELSE Gcd(b, a % b)

\* A fraction n/d with d > 0, in lowest terms.
Frac(n, d) ==
  LET g == Gcd(Abs(n), d)
  IN  IF g = 0 THEN <<0, 1>> ELSE <<n \div g, d \div g>>
\* Sums over the least common denominator, which keeps the products small.
FAdd(p, q) ==
  LET g == Gcd(p[2], q[2])
  IN  Frac(p[1] * (q[2] \div g) + q[1] * (p[2] \div g), (p[2] \div g) * q[2])
FSub(p, q) == FAdd(p, <<-q[1], q[2]>>)
FMul(p, q) == Frac(p[1] * q[1], p[2] * q[2])
FAbs(p) == <<Abs(p[1]), p[2]>>
\* p / v for a nonzero integer v.
FDivInt(p, v) == IF v > 0 THEN Frac(p[1], p[2] * v) ELSE Frac(-p[1], p[2] * (-v))

\* a / b for b > 0, rounded to the nearest integer (halves upwards).
Quot(a, b) == (2 * a + b) \div (2 * b)

\* floor(sqrt(n)) for n >= 0.
RECURSIVE ISqrtFrom(_, _)
ISqrtFrom(n, r) ==
  LET r2 == (r + n \div r) \div 2
  IN  IF r2 >= r THEN r ELSE ISqrtFrom(n, r2)
ISqrt(n) == IF n < 2 THEN n ELSE ISqrtFrom(n, n \div 2)

(* ---------------------------------------------------------------------- *)
(* Arrays.  A tensor of shape <<s1, s2, s3>> is a function on Pos(shape);  *)
(* a vector of length n is a function on 0 .. n-1.                         *)
(* ---------------------------------------------------------------------- *)
Pos(shape) == (0 .. shape[1] - 1) \X (0 .. shape[2] - 1) \X (0 .. shape[3] - 1)
Size(shape) == shape[1] * shape[2] * shape[3]
Len0(vec) == Cardinality(DOMAIN vec)

\* The positions of a shape in C (row-major) order, as np.where lists them.
PosSeq(shape) ==
  [n \in 1 .. Size(shape) |->
     <<(n - 1) \div (shape[2] * shape[3]),
       ((n - 1) \div shape[3]) % shape[2],
       (n - 1) % shape[3]>>]

RECURSIVE SumTo(_, _)
\* f[0] + ... + f[n-1]
SumTo(f, n) == IF n = 0 THEN 0 ELSE f[n - 1] + SumTo(f, n - 1)
SumVec(vec) == SumTo(vec, Len0(vec))

RECURSIVE SumSeq(_)
SumSeq(s) == IF s = <<>> THEN 0 ELSE Head(s) + SumSeq(Tail(s))

\* numpy broadcasting of two shapes: defined when on every axis the sizes
\* agree or one of them is 1.
Broadcastable(a, b) == \A k \in 1 .. 3 : a[k] = b[k] \/ a[k] = 1 \/ b[k] = 1
BroadcastShape(a, b) == [k \in 1 .. 3 |-> Max(a[k], b[k])]
\* The element of a tensor of the given shape that a broadcast position reads.
BAt(tensor, shape, p) ==
  tensor[<<IF shape[1] = 1 THEN 0 ELSE p[1],
           IF shape[2] = 1 THEN 0 ELSE p[2],
           IF shape[3] = 1 THEN 0 ELSE p[3]>>]
InBounds(shape, p) == \A k \in 1 .. 3 : p[k] < shape[k]

(* ---------------------------------------------------------------------- *)
(* Helpers of the second notebook cell and the library calls, rank 1.      *)
(* ---------------------------------------------------------------------- *)
\* The generator: a full-period congruential stream on 0 .. 15.
rng_next(x) == (5 * x + 3) % 16
\* normrnd(size = (1,)) read off the state: -1, 0, 0 or 1.
normrnd(x) == <<-1, 0, 0, 1>>[(x \div 4) + 1]
\* The chi-square variate behind wishart.rvs, 1 .. 8.
chi2_rvs(x) == 1 + (x \div 2)
\* The standard gamma variate behind np.random.gamma, 1 .. 4.
standard_gamma(x) == 1 + (x \div 4)

\* scipy.linalg.cholesky of a 1x1 matrix.
cholesky_upper(Lambda) == ISqrt(Lambda)
\* solve_ut(C, src) for a 1x1 upper triangle C.
solve_ut(C, src) == Quot(src, C)
\* mvnrnd_pre(mu, Lambda), lines 54-57, drawing src from generator state x.
mvnrnd_pre(mu, Lambda, x) == solve_ut(cholesky_upper(Lambda), normrnd(x)) + mu
\* numpy.linalg.solve(a, b) for a 1x1 system.
solve(a, b) == Quot(b, a)
\* numpy.linalg.inv of a 1x1 matrix, kept exact.
inv(a) == <<1, a>>
\* cov_mat(mat, mat_bar): (mat - mat_bar).T @ (mat - mat_bar)
cov_mat(mat, mat_bar) ==
  SumVec([r \in DOMAIN mat |-> (mat[r] - mat_bar) * (mat[r] - mat_bar)])
\* np.mean(mat, axis = 0)
mean(mat) == Quot(SumVec(mat), Len0(mat))
\* wishart.rvs(df, scale) in one dimension is scale times a chi-square
\* variate with df degrees of freedom, drawn from generator state x.
wishart_rvs(df, scale, x) == Max(1, Quot(chi2_rvs(x) * scale[1], scale[2]))
\* scipy.linalg.khatri_rao(A, B) of two one-column matrices: row a*|B|+b
\* holds A[a] * B[b].
kr_prod(A, B) ==
  [c \in 0 .. Len0(A) * Len0(B) - 1 |-> A[c \div Len0(B)] * B[c % Len0(B)]]
\* ten2mat(tensor, mode): moveaxis(mode -> 0), then a Fortran-order reshape
\* to (shape[mode], -1); the result is indexed [row][column].
ten2mat(tensor, shape, mode) ==
  LET a == IF mode = 0 THEN 2 ELSE 1      \* the faster of the two other axes
      b == IF mode = 2 THEN 2 ELSE 3      \* the slower one
  IN  [r \in 0 .. shape[mode + 1] - 1 |->
        [c \in 0 .. shape[a] * shape[b] - 1 |->
           tensor[[k \in 1 .. 3 |->
                    IF k = mode + 1 THEN r
                    ELSE IF k = a THEN c % shape[a]
                    ELSE c \div shape[a]]]]]
\* row @ column for two vectors of one length.
dot(x, y) == SumVec([c \in DOMAIN x |-> x[c] * y[c]])
\* np.einsum('is, js, ts -> ijt', U, V, X)
einsum(U, V, X) ==
  [p \in Pos(<<Len0(U), Len0(V), Len0(X)>>) |-> U[p[1]] * V[p[2]] * X[p[3]]]

(* ---------------------------------------------------------------------- *)
(* The frame of one activation of BPTF.                                    *)
(*                                                                         *)
(* Program state: the arguments (dense_tensor with its shape ddim,         *)
(* sparse_tensor with its shape dim, the init arrays U, V, X, which BPTF   *)
(* and the samplers update in place, burn_iter, gibbs_iter), the locals of *)
(* BPTF and of the sampler that is running, the lines printed, the value   *)
(* returned, the exception raised, and pc, the statement to run next.      *)
(*                                                                         *)
(* History kept beside it: dense0, sparse0 and seed, the tensors and the   *)
(* generator state as passed; hist, the reconstruction of every sweep; and *)
(* the sweep in which each value was                                       *)
(* last written (verU, verV, verX per row; verTau, verW, verHat) together  *)
(* with rd, the versions each step of the sweep read, and in_plus and      *)
(* in_temp, the sweeps added into tensor_hat_plus and temp_hat.            *)
(* ---------------------------------------------------------------------- *)
Unset == <<>>
\* The reads of one sweep: what sample_factor_u, _v, _x (and each row of
\* X), the reconstruction and sample_precision_tau found written when.
NoReads == [u |-> <<>>, v |-> <<>>, x |-> <<>>, xrow |-> <<>>, hat |-> <<>>, tau |-> <<>>]

\* An input: the arguments of one call.
Frame(dense, ddim, sparse, dim, U, V, X, burn, gibbs, seed) ==
  [pc |-> "start", exc |-> "none", rng |-> seed,
   dense_tensor |-> dense, ddim |-> ddim, sparse_tensor |-> sparse, dim |-> dim,
   U |-> U, V |-> V, X |-> X, burn_iter |-> burn, gibbs_iter |-> gibbs,
   ind |-> Unset, pos_test |-> Unset, dense_test |-> Unset, tau |-> 0,
   temp_hat |-> Unset, tensor_hat_plus |-> Unset, it |-> 0,
   tau_ind |-> Unset, tau_sparse_tensor |-> Unset, tensor_hat |-> Unset,
   var_mu_hyper |-> 0, var_Lambda_hyper |-> 0, var3 |-> Unset, var4 |-> Unset,
   i |-> 0, j |-> 0, t |-> 0, var_alpha |-> Unset, var_beta |-> Unset,
   printed |-> <<>>, ret |-> Unset,
   dense0 |-> dense, sparse0 |-> sparse, seed |-> seed, hist |-> <<>>,
   verU |-> [r \in DOMAIN U |-> 0], verV |-> [r \in DOMAIN V |-> 0],
   verX |-> [r \in DOMAIN X |-> 0], verTau |-> 0, verW |-> 0, verHat |-> 0,
   rd |-> NoReads, in_plus |-> <<>>, in_temp |-> <<>>]

\* An exception leaves BPTF: the frame is gone, the caller keeps its arrays.
Raise(f, e) == [f EXCEPT !.pc = "raised", !.exc = e]

(* ---------------------------------------------------------------------- *)
(* BPTF, lines 190-208: mask, held-out positions, zero filling.            *)
(* ---------------------------------------------------------------------- *)
\* np.isnan(sparse_tensor).any()
any_isnan(sparse, dim) == \E p \in Pos(dim) : isnan(sparse[p])

ind_of_Nonzero(sparse, dim) == [p \in Pos(dim) |-> sparse[p] # Cell(0)]
\* ind, lines 195 and 200.
ind_of(sparse, dim) ==
  IF ~any_isnan(sparse, dim)
  THEN [p \in Pos(dim) |-> sparse[p] # Cell(0)]
  ELSE [p \in Pos(dim) |-> ~isnan(sparse[p])]

pos_test_of_ZeroIsMissing(dense, ddim, sparse, dim) ==
  SelectSeq(PosSeq(BroadcastShape(ddim, dim)),
            LAMBDA p : BAt(dense, ddim, p) # Cell(0) /\ BAt(sparse, dim, p) = Cell(0))
pos_test_of_AnyReference(dense, ddim, sparse, dim) ==
  IF ~any_isnan(sparse, dim)
  THEN SelectSeq(PosSeq(BroadcastShape(ddim, dim)), LAMBDA p : BAt(sparse, dim, p) = Cell(0))
  ELSE SelectSeq(PosSeq(BroadcastShape(ddim, dim)), LAMBDA p : isnan(BAt(sparse, dim, p)))
\* pos_test, lines 197 and 199: np.where of the broadcast conjunction.
pos_test_of(dense, ddim, sparse, dim) ==
  LET bshape == BroadcastShape(ddim, dim)
      nonzero(p) == BAt(dense, ddim, p) # Cell(0)
  IN  IF ~any_isnan(sparse, dim)
      THEN SelectSeq(PosSeq(bshape),
                     LAMBDA p : nonzero(p) /\ BAt(sparse, dim, p) = Cell(0))
      ELSE SelectSeq(PosSeq(bshape),
                     LAMBDA p : nonzero(p) /\ isnan(BAt(sparse, dim, p)))

\* sparse_tensor[np.isnan(sparse_tensor)] = 0, line 202 (convention a only).
zero_fill(sparse, dim) ==
  IF ~any_isnan(sparse, dim)
  THEN sparse
  ELSE [p \in Pos(dim) |-> IF isnan(sparse[p]) THEN Cell(0) ELSE sparse[p]]

\* np.zeros(n) and np.zeros(dim)
zeros_seq(n) == [k \in 1 .. n |-> 0]
zeros(dim) == [p \in Pos(dim) |-> 0]

Start(f) ==
  IF ~Broadcastable(f.ddim, f.dim)
  THEN Raise(f, "ValueError")                       \* the & of lines 197/199
  ELSE
    LET pos  == pos_test_of(f.dense_tensor, f.ddim, f.sparse_tensor, f.dim)
        g    == [f EXCEPT !.ind = ind_of(f.sparse_tensor, f.dim),
                          !.pos_test = pos,
                          !.sparse_tensor = zero_fill(f.sparse_tensor, f.dim)]
    IN  IF \E n \in 1 .. Len(pos) : ~InBounds(f.ddim, pos[n])
        THEN Raise(g, "IndexError")                 \* dense_tensor[pos_test]
        ELSE [g EXCEPT !.dense_test = [n \in 1 .. Len(pos) |-> f.dense_tensor[pos[n]]],
                       !.dense_tensor = Unset,      \* del dense_tensor
                       !.tau = tau0,
                       !.temp_hat = zeros_seq(Len(pos)),
                       !.tensor_hat_plus = zeros(f.dim),
                       !.it = 0,
                       !.pc = "for"]

(* ---------------------------------------------------------------------- *)
(* BPTF, lines 209-211: the head of the loop and the noise weights.        *)
(* ---------------------------------------------------------------------- *)
LoopHeadSkipsU(f) ==
  IF f.it < f.burn_iter + f.gibbs_iter
  THEN [f EXCEPT !.tau_ind = [p \in Pos(f.dim) |-> IF f.ind[p] THEN f.tau ELSE 0],
                 !.tau_sparse_tensor = [p \in Pos(f.dim) |-> f.tau * Val(f.sparse_tensor[p])],
                 !.verW = f.verTau,
                 !.rd = NoReads,
                 !.pc = "sample_factor_v"]
  ELSE [f EXCEPT !.pc = "final"]
LoopHead(f) ==
  IF f.it < f.burn_iter + f.gibbs_iter
  THEN [f EXCEPT !.tau_ind = [p \in Pos(f.dim) |-> IF f.ind[p] THEN f.tau ELSE 0],
                 !.tau_sparse_tensor = [p \in Pos(f.dim) |-> f.tau * Val(f.sparse_tensor[p])],
                 !.verW = f.verTau,
                 !.rd = NoReads,
                 !.pc = "sample_factor_u"]
  ELSE [f EXCEPT !.pc = "final"]

(* ---------------------------------------------------------------------- *)
(* The factor samplers.                                                    *)
(* ---------------------------------------------------------------------- *)
Sweep(f) == f.it + 1
Versions(ver) == {ver[r] : r \in DOMAIN ver}
Square(vec) == [c \in DOMAIN vec |-> vec[c] * vec[c]]

\* var2 @ ten2mat(tensor, mode).T needs as many rows in the design matrix
\* as the unfolding has columns; reshape([rank, rank, n]) needs n slices.
MatmulOk(var1, dim, mode) == Len0(var1) * dim[mode + 1] = Size(dim)
ReshapeOk(n, dim, mode) == n = dim[mode + 1]
\* (var @ ten2mat(tensor, mode).T)[:, r] for every row r of the unfolding.
Contract(var, tensor, dim, mode) ==
  LET M == ten2mat(tensor, dim, mode)
  IN  [r \in DOMAIN M |-> dot(var, M[r])]

\* sample_factor_u, lines 76-87: hyperparameters, precisions, linear terms.
SampleUPrep(f) ==
  LET dim1 == Len0(f.U)
      U_bar == mean(f.U)
      mu0 == Quot(dim1 * U_bar, dim1 + beta0)
      var_U_hyper == inv(1 + cov_mat(f.U, U_bar)
                           + Quot(dim1 * beta0 * U_bar * U_bar, dim1 + beta0))
      Lambda == wishart_rvs(dim1 + 1, var_U_hyper, f.rng)
      mu == mvnrnd_pre(mu0, (dim1 + beta0) * Lambda, rng_next(f.rng))
      var1 == kr_prod(f.X, f.V)
      var2 == Square(var1)
      g == [f EXCEPT !.var_Lambda_hyper = Lambda, !.var_mu_hyper = mu,
                     !.rng = rng_next(rng_next(f.rng)),
                     !.rd.u = <<[V |-> Versions(f.verV), X |-> Versions(f.verX), w |-> f.verW]>>]
  IN  IF ~MatmulOk(var1, f.dim, 0) \/ ~ReshapeOk(dim1, f.dim, 0)
      THEN Raise(g, "ValueError")
      ELSE [g EXCEPT
             !.var3 = [r \in 0 .. dim1 - 1 |->
                         Contract(var2, f.tau_ind, f.dim, 0)[r] + Lambda],
             !.var4 = [r \in 0 .. dim1 - 1 |->
                         Contract(var1, f.tau_sparse_tensor, f.dim, 0)[r] + Lambda * mu],
             !.i = 0,
             !.pc = "u_rows"]

\* sample_factor_u, line 89: the value written to row i with draw x.  The
\* variant takes the hyper-mean from U as it is when the row is written.
URowValueLiveMean(f, i, x) ==
  LET live == Quot(Len0(f.U) * mean(f.U), Len0(f.U) + beta0)
  IN  mvnrnd_pre(solve(f.var3[i], f.var4[i] + f.var_Lambda_hyper * (live - f.var_mu_hyper)),
                 f.var3[i], x)
URowValue(f, i, x) == mvnrnd_pre(solve(f.var3[i], f.var4[i]), f.var3[i], x)

\* sample_factor_u, lines 88-91: one pass of the row loop; the last pass
\* returns to line 213.
SampleURow(f) ==
  LET i == f.i
  IN  [f EXCEPT !.U[i] = URowValue(f, i, f.rng),
                !.rng = rng_next(f.rng),
                !.verU[i] = Sweep(f),
                !.i = i + 1,
                !.pc = IF i + 1 < Len0(f.U) THEN "u_rows" ELSE "sample_factor_v"]

\* sample_factor_v, lines 103-114.
SampleVPrep(f) ==
  LET dim2 == Len0(f.V)
      V_bar == mean(f.V)
      mu0 == Quot(dim2 * V_bar, dim2 + beta0)
      var_V_hyper == inv(1 + cov_mat(f.V, V_bar)
                           + Quot(dim2 * beta0 * V_bar * V_bar, dim2 + beta0))
      Lambda == wishart_rvs(dim2 + 1, var_V_hyper, f.rng)
      mu == mvnrnd_pre(mu0, (dim2 + beta0) * Lambda, rng_next(f.rng))
      var1 == kr_prod(f.X, f.U)
      var2 == Square(var1)
      g == [f EXCEPT !.var_Lambda_hyper = Lambda, !.var_mu_hyper = mu,
                     !.rng = rng_next(rng_next(f.rng)),
                     !.rd.v = <<[U |-> Versions(f.verU), X |-> Versions(f.verX), w |-> f.verW]>>]
  IN  IF ~MatmulOk(var1, f.dim, 1) \/ ~ReshapeOk(dim2, f.dim, 1)
      THEN Raise(g, "ValueError")
      ELSE [g EXCEPT
             !.var3 = [r \in 0 .. dim2 - 1 |->
                         Contract(var2, f.tau_ind, f.dim, 1)[r] + Lambda],
             !.var4 = [r \in 0 .. dim2 - 1 |->
                         Contract(var1, f.tau_sparse_tensor, f.dim, 1)[r] + Lambda * mu],
             !.j = 0,
             !.pc = "v_rows"]

\* sample_factor_v, line 116: the value written to row j with draw x.
VRowValue(f, j, x) == mvnrnd_pre(solve(f.var3[j], f.var4[j]), f.var3[j], x)

\* sample_factor_v, lines 115-118.
SampleVRow(f) ==
  LET j == f.j
  IN  [f EXCEPT !.V[j] = VRowValue(f, j, f.rng),
                !.rng = rng_next(f.rng),
                !.verV[j] = Sweep(f),
                !.j = j + 1,
                !.pc = IF j + 1 < Len0(f.V) THEN "v_rows" ELSE "sample_factor_x"]

\* dx.T @ dx for dx = X[1:, :] - X[:-1, :]
dx_scatter(X) ==
  SumVec([r \in 0 .. Len0(X) - 2 |-> (X[r + 1] - X[r]) * (X[r + 1] - X[r])])

\* sample_factor_x, lines 130-140.
SampleXPrep(f) ==
  LET dim3 == Len0(f.X)
      mu0 == Quot(f.X[0], beta0 + 1)
      var_V_hyper == inv(1 + dx_scatter(f.X)
                           + Quot(beta0 * f.X[0] * f.X[0], beta0 + 1))
      Lambda == wishart_rvs(dim3 + 1, var_V_hyper, f.rng)
      mu == mvnrnd_pre(mu0, (beta0 + 1) * Lambda, rng_next(f.rng))
      var1 == kr_prod(f.V, f.U)
      var2 == Square(var1)
      g == [f EXCEPT !.var_Lambda_hyper = Lambda, !.var_mu_hyper = mu,
                     !.rng = rng_next(rng_next(f.rng)),
                     !.rd.x = <<[U |-> Versions(f.verU), V |-> Versions(f.verV), w |-> f.verW]>>]
  IN  IF ~MatmulOk(var1, f.dim, 2) \/ ~ReshapeOk(dim3, f.dim, 2)
      THEN Raise(g, "ValueError")
      ELSE [g EXCEPT
             !.var3 = Contract(var2, f.tau_ind, f.dim, 2),
             !.var4 = Contract(var1, f.tau_sparse_tensor, f.dim, 2),
             !.t = 0,
             !.pc = "x_rows"]

\* The row of X written at step t and the neighbours it reads: lines 142-151.
XRowRuleNoInterior(t, dim3) == IF t = 0 THEN "first" ELSE "last"
XRowRule(t, dim3) ==
  IF t = 0 THEN "first" ELSE IF t = dim3 - 1 THEN "last" ELSE "interior"

\* sample_factor_x, lines 141-153: one pass of the loop over t.
SampleXRow(f) ==
  LET t == f.t
      dim3 == Len0(f.X)
      L == f.var_Lambda_hyper
      rule == XRowRule(t, dim3)
      new ==
        IF rule = "first"
        THEN mvnrnd_pre(Quot(f.X[t + 1] + f.var_mu_hyper, 2), f.var3[t] + 2 * L, f.rng)
        ELSE IF rule = "last"
        THEN LET temp1 == f.var4[t] + L * f.X[t - 1]
                 temp2 == f.var3[t] + L
             IN  mvnrnd_pre(solve(temp2, temp1), temp2, f.rng)
        ELSE LET temp1 == f.var4[t] + L * (f.X[t - 1] + f.X[t + 1])
                 temp2 == f.var3[t] + 2 * L
             IN  mvnrnd_pre(solve(temp2, temp1), temp2, f.rng)
      reads == [t |-> t, rule |-> rule,
                left  |-> IF rule = "first" THEN -1 ELSE f.verX[t - 1],
                right |-> IF rule = "last" THEN -1 ELSE f.verX[t + 1]]
  IN  IF rule = "first" /\ t + 1 >= dim3
      THEN Raise(f, "IndexError")                   \* X[t + 1] with dim3 = 1
      ELSE [f EXCEPT !.X[t] = new,
                     !.rng = rng_next(f.rng),
                     !.verX[t] = Sweep(f),
                     !.rd.xrow = Append(f.rd.xrow, reads),
                     !.t = t + 1,
                     !.pc = IF t + 1 < dim3 THEN "x_rows" ELSE "einsum"]

(* ---------------------------------------------------------------------- *)
(* Reconstruction, noise precision, metrics.                               *)
(* ---------------------------------------------------------------------- *)
\* tensor[pos_test]
Take(tensor, pos) == [n \in 1 .. Len(pos) |-> tensor[pos[n]]]

\* BPTF, lines 215-216.
Reconstruct(f) ==
  LET hat == einsum(f.U, f.V, f.X)
      shape == <<Len0(f.U), Len0(f.V), Len0(f.X)>>
      g == [f EXCEPT !.tensor_hat = hat,
                     !.verHat = Sweep(f),
                     !.hist = Append(f.hist, hat),
                     !.rd.hat = <<[U |-> Versions(f.verU), V |-> Versions(f.verV),
                                  X |-> Versions(f.verX)]>>]
  IN  IF \E n \in 1 .. Len(f.pos_test) : ~InBounds(shape, f.pos_test[n])
      THEN Raise(g, "IndexError")
      ELSE [g EXCEPT !.temp_hat = [n \in 1 .. Len(f.pos_test) |->
                                     f.temp_hat[n] + hat[f.pos_test[n]]],
                     !.in_temp = Append(f.in_temp, Sweep(f)),
                     !.pc = "sample_precision_tau"]

\* var_alpha and var_beta of sample_precision_tau, lines 163-164, exact:
\* [micro |-> m, half |-> h] is the number m * 1e-6 + h * 0.5.
var_alpha_of(ind, dim) ==
  [micro |-> 1, half |-> Cardinality({p \in Pos(dim) : ind[p]})]
var_beta_of_Unmasked(sparse_tensor, tensor_hat, ind, dim) ==
  [micro |-> 1,
   half |-> SumSeq([n \in 1 .. Size(dim) |->
                      LET p == PosSeq(dim)[n]
                          r == Val(sparse_tensor[p]) - tensor_hat[p]
                      IN  r * r])]
var_beta_of(sparse_tensor, tensor_hat, ind, dim) ==
  [micro |-> 1,
   half |-> SumSeq([n \in 1 .. Size(dim) |->
                      LET p == PosSeq(dim)[n]
                          r == Val(sparse_tensor[p]) - tensor_hat[p]
                      IN  IF ind[p] THEN r * r ELSE 0])]
\* np.random.gamma(shape, scale), line 165: scale times a standard gamma
\* variate of that shape, drawn from generator state x; the scale is
\* 1 / var_beta.  The draw is positive and is quantised to 1 .. TauMax.
gamma_rvs(var_alpha, var_beta, x) ==
  LET g == standard_gamma(x)
      q == IF var_beta.half > 2 * g
           THEN 0
           ELSE (2 * g * Micro) \div (2 * var_beta.micro + Micro * var_beta.half)
  IN  Max(1, Min(TauMax, q))

SampleTauLeaksReference(f) ==
  LET a == var_alpha_of(f.ind, f.dim)
      b == var_beta_of(f.sparse_tensor, f.tensor_hat, f.ind, f.dim)
      leak == SumSeq([n \in 1 .. Len(f.pos_test) |->
                        (Val(f.dense_test[n]) - f.tensor_hat[f.pos_test[n]])
                        * (Val(f.dense_test[n]) - f.tensor_hat[f.pos_test[n]])])
      c == [b EXCEPT !.half = b.half + leak]
  IN  [f EXCEPT !.var_alpha = a, !.var_beta = c,
                !.tau = gamma_rvs(a, c, f.rng),
                !.rng = rng_next(f.rng),
                !.verTau = Sweep(f),
                !.rd.tau = <<[hat |-> f.verHat]>>,
                !.pc = "accumulate"]
\* BPTF, line 217, with sample_precision_tau, lines 163-165.
SampleTau(f) ==
  LET a == var_alpha_of(f.ind, f.dim)
      b == var_beta_of(f.sparse_tensor, f.tensor_hat, f.ind, f.dim)
  IN  [f EXCEPT !.var_alpha = a, !.var_beta = b,
                !.tau = gamma_rvs(a, b, f.rng),
                !.rng = rng_next(f.rng),
                !.verTau = Sweep(f),
                !.rd.tau = <<[hat |-> f.verHat]>>,
                !.pc = "accumulate"]

\* A float quotient by an integer count: 0/0 is NaN (a warning, no exception).
float_div(p, n) ==
  IF n # 0 THEN FDivInt(p, n) ELSE IF p[1] = 0 THEN NaN ELSE <<p[1], 0>>

RECURSIVE FSum(_)
FSum(s) == IF s = <<>> THEN <<0, 1>> ELSE FAdd(Head(s), FSum(Tail(s)))

\* compute_mape(var, var_hat), line 175.  var holds cells, var_hat fractions.
compute_mape(var, var_hat) ==
  float_div(FSum([n \in 1 .. Len(var) |->
                    FDivInt(FAbs(FSub(<<Val(var[n]), 1>>, var_hat[n])), Val(var[n]))]),
            Len(var))

\* compute_rmse(var, var_hat), line 178: the square root of the fraction
\* returned here, NaN when that is NaN.
compute_rmse(var, var_hat) ==
  float_div(FSum([n \in 1 .. Len(var) |->
                    LET e == FSub(<<Val(var[n]), 1>>, var_hat[n]) IN FMul(e, e)]),
            Len(var))

\* BPTF, line 218: the sweep belongs to the sampling phase.
InSamplingPhaseAlsoLastBurnIn(f) == f.it + 1 >= f.burn_iter
InSamplingPhase(f) == f.it + 1 > f.burn_iter
\* BPTF, line 220: a report is due.
ReportDueAlsoSampling(f) == (f.it + 1) % show_iter = 0
ReportDue(f) == (f.it + 1) % show_iter = 0 /\ f.it < f.burn_iter

\* BPTF, lines 218-226: the posterior-mean accumulator and the report.
Accumulate(f) ==
  LET g == IF InSamplingPhase(f)
           THEN [f EXCEPT !.tensor_hat_plus =
                            [p \in Pos(f.dim) |-> f.tensor_hat_plus[p] + f.tensor_hat[p]],
                          !.in_plus = Append(f.in_plus, f.verHat)]
           ELSE f
      avg == [n \in 1 .. Len(f.temp_hat) |-> Frac(f.temp_hat[n], show_iter)]
      h == IF ReportDue(f)
           THEN [g EXCEPT !.printed = Append(f.printed,
                                        [kind |-> "Iter", Iter |-> f.it + 1,
                                         MAPE |-> compute_mape(f.dense_test, avg),
                                         RMSE |-> compute_rmse(f.dense_test, avg),
                                         of |-> f.in_temp]),
                          !.temp_hat = zeros_seq(Len(f.pos_test)),
                          !.in_temp = <<>>]
           ELSE g
  IN  [h EXCEPT !.it = f.it + 1, !.pc = "for"]

\* BPTF, lines 227-232.
Finish(f) ==
  LET hat == [p \in Pos(f.dim) |-> float_div(<<f.tensor_hat_plus[p], 1>>, f.gibbs_iter)]
  IN  [f EXCEPT !.ret = hat,
                !.printed = Append(f.printed,
                              [kind |-> "Imputation", Iter |-> f.it,
                               MAPE |-> compute_mape(f.dense_test, Take(hat, f.pos_test)),
                               RMSE |-> compute_rmse(f.dense_test, Take(hat, f.pos_test)),
                               of |-> f.in_plus]),
                !.pc = "done"]

(* ---------------------------------------------------------------------- *)
(* Inputs.                                                                 *)
(* ---------------------------------------------------------------------- *)
Shapes == {<<2, 1, d3>> : d3 \in 1 .. MaxD3}
FirstPos == <<0, 0, 0>>
ZeroPos == <<1, 0, 0>>
LastPos(shape) == <<shape[1] - 1, shape[2] - 1, shape[3] - 1>>

\* A reference tensor with entries 1 and 2, and 0 at the positions of zeroAt.
DenseOf(shape, zeroAt) ==
  [p \in Pos(shape) |-> IF p \in zeroAt THEN Cell(0) ELSE Cell(1 + ((p[1] + p[3]) % 2))]
\* The reference with the positions of miss hidden: as NaN (convention a)
\* or as 0 (convention b).
SparseOf(dense, miss, conv) ==
  [p \in DOMAIN dense |->
     IF p \in miss THEN (IF conv = "a" THEN NaN ELSE Cell(0)) ELSE dense[p]]
MissOf(shape, which) ==
  IF which = "none" THEN {}
  ELSE IF which = "first" THEN {FirstPos}
  ELSE {FirstPos, LastPos(shape)}
\* Initial factors: all ones, or ones and twos in turn.
InitVec(n, alt) == [r \in 0 .. n - 1 |-> IF alt THEN 1 + (r % 2) ELSE 1]

\* Well-formed calls: one shape for both tensors, init factors of that shape.
Inputs ==
  { Frame(DenseOf(shape, zeroAt), shape,
          SparseOf(DenseOf(shape, zeroAt), MissOf(shape, miss), conv), shape,
          InitVec(shape[1], FALSE), InitVec(shape[2], FALSE), InitVec(shape[3], alt),
          burn, gibbs, seed) :
      shape \in Shapes, zeroAt \in {{}, {ZeroPos}},
      miss \in {"none", "first", "both"}, conv \in {"a", "b"}, alt \in BOOLEAN,
      burn \in 0 .. MaxBurn, gibbs \in 1 .. MaxGibbs, seed \in 0 .. MaxSeed }

\* Malformed calls: the reference tensor has another third dimension than
\* the sparse tensor, or an init factor has another number of rows than its
\* dimension of the sparse tensor.
Malformed(f) ==
  \/ f.ddim # f.dim
  \/ Len0(f.U) # f.dim[1] \/ Len0(f.V) # f.dim[2] \/ Len0(f.X) # f.dim[3]
MalformedInputs ==
  { Frame(DenseOf(<<shape[1], shape[2], dd3>>, {}), <<shape[1], shape[2], dd3>>,
          SparseOf(DenseOf(shape, {}), MissOf(shape, miss), "a"), shape,
          InitVec(nU, FALSE), InitVec(nV, FALSE), InitVec(nX, FALSE),
          0, 1, seed) :
      shape \in Shapes, dd3 \in 1 .. MaxD3, miss \in {"first", "both"},
      nU \in 1 .. 2, nV \in 1 .. 2, nX \in 1 .. MaxD3, seed \in 0 .. MaxSeed }

NoTwin == [on |-> FALSE]

Init ==
  /\ st \in Inputs \cup {f \in MalformedInputs : Malformed(f)}
  /\ tw = NoTwin

(* ---------------------------------------------------------------------- *)
(* Steps.  A twin activation, when there is one, takes every step with     *)
(* the same draws.                                                         *)
(* ---------------------------------------------------------------------- *)
Both(Op(_)) ==
  /\ st' = Op(st)
  /\ tw' = IF tw.on THEN [on |-> TRUE, f |-> Op(tw.f)] ELSE tw

DoStart == st.pc = "start" /\ Both(Start)
DoLoopHead == st.pc = "for" /\ Both(LoopHead)
DoSampleUPrep == st.pc = "sample_factor_u" /\ Both(SampleUPrep)
DoSampleURow == st.pc = "u_rows" /\ Both(SampleURow)
DoSampleVPrep == st.pc = "sample_factor_v" /\ Both(SampleVPrep)
DoSampleVRow == st.pc = "v_rows" /\ Both(SampleVRow)
DoSampleXPrep == st.pc = "sample_factor_x" /\ Both(SampleXPrep)
DoSampleXRow == st.pc = "x_rows" /\ Both(SampleXRow)
DoReconstruct == st.pc = "einsum" /\ Both(Reconstruct)
DoSampleTau == st.pc = "sample_precision_tau" /\ Both(SampleTau)
DoAccumulate == st.pc = "accumulate" /\ Both(Accumulate)
DoFinish == st.pc = "final" /\ Both(Finish)

Next ==
  \/ DoStart
  \/ DoLoopHead
  \/ DoSampleUPrep
  \/ DoSampleURow
  \/ DoSampleVPrep
  \/ DoSampleVRow
  \/ DoSampleXPrep
  \/ DoSampleXRow
  \/ DoReconstruct
  \/ DoSampleTau
  \/ DoAccumulate
  \/ DoFinish

Spec == Init /\ [][Next]_vars

\* Lines 190-208 alone, on every pair of 2 x 2 x 1 tensors with reference
\* entries 0 .. 3 and sparse entries NaN, 0, 1, 2.
StartShape == <<2, 2, 1>>
StartInputs ==
  { Frame(dense, StartShape, sparse, StartShape,
          InitVec(2, FALSE), InitVec(2, FALSE), InitVec(1, FALSE), 0, 1, 0) :
      dense \in [Pos(StartShape) -> {Cell(0), Cell(1), Cell(2), Cell(3)}],
      sparse \in [Pos(StartShape) -> {NaN, Cell(0), Cell(1), Cell(2)}] }

\* Two calls that differ in the reference tensor only, stepped together:
\* the twin's reference is 3 everywhere but for one optional 0.
TwinDense(shape, zeroAt) == [p \in Pos(shape) |-> IF p \in zeroAt THEN Cell(0) ELSE Cell(3)]
InitTwin ==
  \E f \in Inputs, zeroAt \in {{}, {FirstPos}, {ZeroPos}} :
    /\ st = f
    /\ tw = [on |-> TRUE,
             f |-> [f EXCEPT !.dense_tensor = TwinDense(f.dim, zeroAt),
                             !.dense0 = TwinDense(f.dim, zeroAt)]]
SpecTwin == InitTwin /\ [][Next]_vars

\* Calls on 3 x 2 x 2 tensors, whose U has three rows and V two.
RowsShape == <<3, 2, 2>>
RowsInputs ==
  { Frame(DenseOf(RowsShape, {}), RowsShape,
          SparseOf(DenseOf(RowsShape, {}), MissOf(RowsShape, miss), conv), RowsShape,
          InitVec(3, altU), InitVec(2, altV), InitVec(2, FALSE),
          burn, 1, seed) :
      miss \in {"first", "both"}, conv \in {"a", "b"}, altU \in BOOLEAN, altV \in BOOLEAN,
      burn \in 0 .. MaxBurn, seed \in 0 .. MaxSeed }
InitRows == st \in RowsInputs /\ tw = NoTwin
SpecRows == InitRows /\ [][Next]_vars

\* Calls long enough for interim reports: the burn-in ends one sweep
\* before the first report, at it, or at the second.
LongShape == <<2, 1, 2>>
LongBurns == {show_iter - 1, show_iter, 2 * show_iter}
LongInputs ==
  { Frame(DenseOf(LongShape, {}), LongShape,
          SparseOf(DenseOf(LongShape, {}), MissOf(LongShape, "both"), "a"), LongShape,
          InitVec(2, FALSE), InitVec(1, FALSE), InitVec(2, FALSE),
          burn, gibbs, seed) :
      burn \in LongBurns, gibbs \in {1}, seed \in 0 .. MaxSeed }
InitLong == st \in LongInputs /\ tw = NoTwin
SpecLong == InitLong /\ [][Next]_vars

InitStart == st \in StartInputs /\ tw = NoTwin
NextStart == DoStart
SpecStart == InitStart /\ [][NextStart]_vars

(* ---------------------------------------------------------------------- *)
(* Properties.                                                             *)
(* ---------------------------------------------------------------------- *)
\* Lines 190-208 have run to their end.
Started(f) == f.tau # 0
\* The sweeps that have run to their end, and the sweep in progress.
Completed(f) == f.it
Current(f) == IF f.pc \in {"for", "final", "done"} THEN f.it ELSE f.it + 1
WellFormed(f) == ~Malformed(f)

RECURSIVE SumHist(_, _, _, _)
\* hist[a][p] + ... + hist[b][p]
SumHist(hist, p, a, b) ==
  IF b < a THEN 0 ELSE hist[b][p] + SumHist(hist, p, a, b - 1)

\* C1: the posterior-mean accumulator holds the reconstructions of exactly
\* the sampling-phase sweeps completed so far (burn_iter+1, burn_iter+2, ...),
\* each added once, none of a burn-in sweep; the tensor returned is the sum
\* over the sweeps burn_iter+1 .. burn_iter+gibbs_iter divided by gibbs_iter.
C1_PosteriorMean ==
  Started(st) =>
    /\ st.in_plus = [k \in 1 .. Max(0, Completed(st) - st.burn_iter) |-> st.burn_iter + k]
    /\ \A p \in Pos(st.dim) :
         st.tensor_hat_plus[p] = SumHist(st.hist, p, st.burn_iter + 1, Completed(st))
    /\ st.pc = "done" =>
         /\ Completed(st) = st.burn_iter + st.gibbs_iter
         /\ \A p \in Pos(st.dim) :
              st.ret[p] = Frac(SumHist(st.hist, p, st.burn_iter + 1,
                                       st.burn_iter + st.gibbs_iter),
                               st.gibbs_iter)
\* A run with burn-in and two sampling sweeps whose reconstructions all differ.
C1_Witness ==
  /\ st.pc = "done" /\ st.burn_iter >= 1 /\ st.gibbs_iter >= 2
  /\ st.hist[1] # st.hist[2] /\ st.hist[2] # st.hist[3] /\ st.hist[1] # st.hist[3]
  /\ \E p \in Pos(st.dim) : st.ret[p][1] # 0 /\ st.ret[p][2] = 2

\* C2: in every sweep s, sample_factor_u reads V and X of sweep s-1,
\* sample_factor_v reads U of sweep s and X of sweep s-1, sample_factor_x
\* reads U and V of sweep s, the reconstruction reads U, V, X of sweep s,
\* tau is drawn from the reconstruction of sweep s, and all three samplers
\* use the weights made from the tau of sweep s-1 (tau = 1 in sweep 1);
\* no step runs before the one before it.
C2_SweepOrder ==
  LET s == Current(st)
      rd == st.rd
  IN  /\ \A k \in 1 .. Len(rd.u) : rd.u[k] = [V |-> {s - 1}, X |-> {s - 1}, w |-> s - 1]
      /\ \A k \in 1 .. Len(rd.v) : rd.v[k] = [U |-> {s}, X |-> {s - 1}, w |-> s - 1]
      /\ \A k \in 1 .. Len(rd.x) : rd.x[k] = [U |-> {s}, V |-> {s}, w |-> s - 1]
      /\ \A k \in 1 .. Len(rd.hat) : rd.hat[k] = [U |-> {s}, V |-> {s}, X |-> {s}]
      /\ \A k \in 1 .. Len(rd.tau) : rd.tau[k] = [hat |-> s]
      /\ Len(rd.v) <= Len(rd.u) /\ Len(rd.x) <= Len(rd.v)
      /\ Len(rd.hat) <= Len(rd.x) /\ Len(rd.tau) <= Len(rd.hat)
      /\ (Len(rd.v) = 1 /\ st.pc # "raised") => Versions(st.verU) = {s}
      /\ (Len(rd.x) = 1 /\ st.pc # "raised") => Versions(st.verV) = {s}
      /\ Len(rd.hat) = 1 => Versions(st.verX) = {s}
      /\ (Len(rd.u) = 1 /\ s = 1) =>
           st.tau_ind = [p \in Pos(st.dim) |-> IF st.ind[p] THEN tau0 ELSE 0]
      /\ st.pc \in {"accumulate"} =>
           /\ Len(rd.tau) = 1 /\ st.verTau = s /\ st.verW = s - 1
           /\ st.tensor_hat = einsum(st.U, st.V, st.X)
\* The end of a second sweep, whose weights were made from a drawn tau.
C2_Witness ==
  /\ st.pc = "accumulate" /\ st.it >= 1 /\ st.dim[3] >= 2
  /\ \E p \in Pos(st.dim) : st.tau_ind[p] > tau0

\* Convention (a): the sparse tensor as passed holds a NaN.
ConventionA(f) == \E p \in Pos(f.dim) : isnan(f.sparse0[p])
Missing(f, p) == IF ConventionA(f) THEN isnan(f.sparse0[p]) ELSE f.sparse0[p] = Cell(0)
Range(seq) == {seq[n] : n \in 1 .. Len(seq)}

\* C3: the held-out positions are exactly the positions where the reference
\* tensor is nonzero and the sparse tensor is missing (NaN in convention a,
\* 0 in convention b), each listed once; none of them is observed.
C3_HeldOut ==
  (Started(st) /\ WellFormed(st)) =>
    LET held == {p \in Pos(st.dim) : st.dense0[p] # Cell(0) /\ Missing(st, p)}
    IN  /\ Range(st.pos_test) = held
        /\ Len(st.pos_test) = Cardinality(held)
        /\ \A p \in held : ~st.ind[p]
\* Convention (a) with a held-out position, a missing position whose
\* reference is 0, and an observed 0.
C3_Witness ==
  /\ Started(st) /\ ConventionA(st) /\ Len(st.pos_test) >= 1
  /\ \E p \in Pos(st.dim) : isnan(st.sparse0[p]) /\ st.dense0[p] = Cell(0)
  /\ \E p \in Pos(st.dim) : st.sparse0[p] = Cell(0) /\ st.dense0[p] # Cell(0)

\* The tensors of the example, dense = [[1,0],[2,3]] and
\* sparse = [[1,NaN],[2,0]], as 2 x 2 x 1 tensors: entry (r, c) is <<r, c, 0>>.
ExampleDense ==
  [p \in Pos(StartShape) |->
     Cell(IF p = <<0, 0, 0>> THEN 1 ELSE IF p = <<0, 1, 0>> THEN 0
          ELSE IF p = <<1, 0, 0>> THEN 2 ELSE 3)]
ExampleSparse ==
  [p \in Pos(StartShape) |->
     IF p = <<0, 0, 0>> THEN Cell(1) ELSE IF p = <<0, 1, 0>> THEN NaN
     ELSE IF p = <<1, 0, 0>> THEN Cell(2) ELSE Cell(0)]
IsExample(f) == f.dense0 = ExampleDense /\ f.sparse0 = ExampleSparse

\* C4 as stated: for the example the held-out positions are exactly {(0,1)}.
C4_AsStated == (Started(st) /\ IsExample(st)) => st.pos_test = << <<0, 1, 0>> >>
\* C4: for the example no position is held out: (0,1) is missing but its
\* reference is 0, and (1,1) has a nonzero reference but is an observed 0.
C4_Example ==
  (Started(st) /\ IsExample(st)) =>
    /\ st.pos_test = <<>>
    /\ st.dense_test = <<>>
    /\ ~st.ind[<<0, 1, 0>>] /\ st.ind[<<1, 1, 0>>]
C4_Witness == Started(st) /\ IsExample(st) /\ st.pc = "for"

\* C5: the mask is the one derived from the sparse tensor as passed (not NaN
\* in convention a, nonzero in convention b) in every state from the first
\* sweep on, and the sparse tensor the samplers see is the one passed with
\* every NaN replaced by 0 and nothing else changed.
C5_Mask ==
  Started(st) =>
    /\ st.ind = [p \in Pos(st.dim) |->
                   IF ConventionA(st) THEN ~isnan(st.sparse0[p]) ELSE st.sparse0[p] # Cell(0)]
    /\ st.sparse_tensor = [p \in Pos(st.dim) |->
                             IF isnan(st.sparse0[p]) THEN Cell(0) ELSE st.sparse0[p]]
    /\ ~ConventionA(st) => st.sparse_tensor = st.sparse0
\* A second sweep under convention (a) with a NaN and an observed 0.
C5_Witness ==
  /\ st.pc = "accumulate" /\ st.it >= 1 /\ ConventionA(st)
  /\ \E p \in Pos(st.dim) : st.sparse0[p] = Cell(0) /\ st.ind[p]
  /\ \E p \in Pos(st.dim) : ~st.ind[p]

\* What the sampler computes and where it stands.
SamplerView(f) ==
  [pc |-> f.pc, exc |-> f.exc, it |-> f.it, rng |-> f.rng,
   U |-> f.U, V |-> f.V, X |-> f.X, tau |-> f.tau,
   ind |-> f.ind, sparse_tensor |-> f.sparse_tensor,
   tau_ind |-> f.tau_ind, tau_sparse_tensor |-> f.tau_sparse_tensor,
   tensor_hat |-> f.tensor_hat, hist |-> f.hist,
   tensor_hat_plus |-> f.tensor_hat_plus, ret |-> f.ret]

\* C6: two calls with the same sparse tensor, init, burn_iter, gibbs_iter
\* and draws but different reference tensors agree, at every step, on U, V,
\* X, tau, every reconstruction, the accumulator and the returned tensor.
C6_ReferenceNotRead ==
  tw.on =>
    /\ st.sparse0 = tw.f.sparse0 /\ st.dense0 # tw.f.dense0
    /\ SamplerView(st) = SamplerView(tw.f)
\* Both calls returned after at least two sweeps, with different held-out
\* sets and different final reports.
C6_Witness ==
  /\ tw.on /\ st.pc = "done" /\ st.it >= 2
  /\ st.pos_test # tw.f.pos_test
  /\ st.printed # tw.f.printed
  /\ \E p \in Pos(st.dim) : st.ret[p] # <<0, 1>>

AllVersions(f) == Versions(f.verU) \cup Versions(f.verV) \cup Versions(f.verX)

\* C7: every reconstruction reads U, V and X wholly written in its own
\* sweep, and whenever control has left BPTF (returned or raised) the
\* factor matrices, which are the caller's init matrices, are all of one
\* sweep.
C7_Atomicity ==
  (Started(st) /\ WellFormed(st)) =>
    /\ Len(st.rd.hat) = 1 =>
         st.rd.hat[1] = [U |-> {Current(st)}, V |-> {Current(st)}, X |-> {Current(st)}]
    /\ st.pc \in {"done", "raised"} => Cardinality(AllVersions(st)) = 1

\* C8: a call whose tensors differ in shape, or whose init factors do not
\* have the rows of the sparse tensor's dimensions, never returns, and
\* consumes no draw and writes no factor row, tau or accumulator.
C8_MalformedFatal ==
  Malformed(st) =>
    /\ st.pc # "done"
    /\ st.rng = st.seed
    /\ AllVersions(st) = {0}
    /\ st.verTau = 0
    /\ st.in_plus = <<>>

\* C9: with no held-out position the call does not raise, every report
\* carries NaN for MAPE and RMSE, and the call returns after all
\* burn_iter + gibbs_iter sweeps with the sampling-phase average.
C9_EmptyHeldOut ==
  (Started(st) /\ WellFormed(st) /\ st.pos_test = <<>>) =>
    /\ st.pc # "raised"
    /\ \A n \in 1 .. Len(st.printed) : isnan(st.printed[n].MAPE) /\ isnan(st.printed[n].RMSE)
    /\ st.pc = "done" =>
         /\ Len(st.hist) = st.burn_iter + st.gibbs_iter
         /\ Len(st.printed) >= 1
         /\ \A p \in Pos(st.dim) :
              st.ret[p] = Frac(SumHist(st.hist, p, st.burn_iter + 1, Len(st.hist)), st.gibbs_iter)

\* C10: in a call of sample_factor_x with at least 3 time steps the passes
\* are t = 0, 1, ... in this order; t = 0 reads the old X[1] and no left
\* neighbour, an interior t the new X[t-1] and the old X[t+1], and the last
\* t the new X[t-1] and no right neighbour.
C10_TimeOrder ==
  (Started(st) /\ Len0(st.X) >= 3) =>
    LET s == Current(st)
        d3 == Len0(st.X)
        log == st.rd.xrow
    IN  /\ st.pc = "x_rows" => Len(log) = st.t
        /\ st.pc \in {"einsum", "sample_precision_tau", "accumulate"} => Len(log) = d3
        /\ \A k \in 1 .. Len(log) :
             log[k] = [t |-> k - 1,
                       rule |-> IF k = 1 THEN "first" ELSE IF k = d3 THEN "last" ELSE "interior",
                       left |-> IF k = 1 THEN -1 ELSE s,
                       right |-> IF k = d3 THEN -1 ELSE s - 1]
\* The end of a second call with 3 time steps.
C10_Witness ==
  /\ st.pc = "einsum" /\ st.it >= 1 /\ Len0(st.X) = 3
  /\ Len(st.rd.xrow) = 3 /\ st.rd.xrow[2].rule = "interior"

\* The orders in which n rows can be processed.
Perms(n) == {o \in [1 .. n -> 0 .. n - 1] : \A a, b \in 1 .. n : a # b => o[a] # o[b]}
\* The draw the row loop gives row r: the generator state after r draws.
RECURSIVE NthDraw(_, _)
NthDraw(x, r) == IF r = 0 THEN x ELSE NthDraw(rng_next(x), r - 1)
\* The row loops run in the order given, every row with its own draw.
RECURSIVE URowsIn(_, _, _)
URowsIn(f, order, x) ==
  IF order = <<>> THEN f
  ELSE URowsIn([f EXCEPT !.U[Head(order)] = URowValue(f, Head(order), NthDraw(x, Head(order)))],
               Tail(order), x)
RECURSIVE VRowsIn(_, _, _)
VRowsIn(f, order, x) ==
  IF order = <<>> THEN f
  ELSE VRowsIn([f EXCEPT !.V[Head(order)] = VRowValue(f, Head(order), NthDraw(x, Head(order)))],
               Tail(order), x)
\* The row loops as the code runs them, to their end.
RECURSIVE ULoop(_)
ULoop(f) == IF f.pc = "u_rows" THEN ULoop(SampleURow(f)) ELSE f
RECURSIVE VLoop(_)
VLoop(f) == IF f.pc = "v_rows" THEN VLoop(SampleVRow(f)) ELSE f
Draws == 0 .. 15

\* C11: when the row loop of sample_factor_u (sample_factor_v) starts no
\* row has been written in this sweep; a pass changes neither the
\* hyperparameters, precisions and linear terms nor the value any row
\* would be given with any draw; and the rows processed in any order, each
\* with its own draw, give the matrix the loop gives.
C11_RowOrder ==
  /\ st.pc = "u_rows" =>
       /\ st.i = 0 => /\ Versions(st.verU) = {Current(st) - 1}
                      /\ \A o \in Perms(Len0(st.U)) : URowsIn(st, o, st.rng).U = ULoop(st).U
       /\ LET g == SampleURow(st)
          IN  /\ <<g.var3, g.var4, g.var_mu_hyper, g.var_Lambda_hyper>>
                   = <<st.var3, st.var4, st.var_mu_hyper, st.var_Lambda_hyper>>
              /\ \A r \in DOMAIN st.U, x \in Draws : URowValue(g, r, x) = URowValue(st, r, x)
  /\ st.pc = "v_rows" =>
       /\ st.j = 0 => /\ Versions(st.verV) = {Current(st) - 1}
                      /\ \A o \in Perms(Len0(st.V)) : VRowsIn(st, o, st.rng).V = VLoop(st).V
       /\ LET g == SampleVRow(st)
          IN  /\ <<g.var3, g.var4, g.var_mu_hyper, g.var_Lambda_hyper>>
                   = <<st.var3, st.var4, st.var_mu_hyper, st.var_Lambda_hyper>>
              /\ \A r \in DOMAIN st.V, x \in Draws : VRowValue(g, r, x) = VRowValue(st, r, x)
\* The row loop of a second sweep starts on three rows and changes two.
C11_Witness ==
  /\ st.pc = "u_rows" /\ st.i = 0 /\ st.it >= 1 /\ Len0(st.U) = 3
  /\ Cardinality({r \in DOMAIN st.U : ULoop(st).U[r] # st.U[r]}) >= 2

\* The interim reports printed so far.
IterReports(f) == SelectSeq(f.printed, LAMBDA r : r.kind = "Iter")
\* The held-out predictions of sweeps a .. b, summed and divided by n.
HeldOutMean(f, a, b, n) ==
  [j \in 1 .. Len(f.pos_test) |-> Frac(SumHist(f.hist, f.pos_test[j], a, b), n)]

\* C12: the interim reports are those of the sweeps k * show_iter up to
\* burn_iter, none of a later sweep; report k compares the held-out
\* reference with the held-out predictions of sweeps (k-1) * show_iter + 1
\* .. k * show_iter summed and divided by show_iter; and the accumulator
\* holds the sweeps since the last report, nothing right after a report.
C12_InterimReports ==
  Started(st) =>
    LET reps == IterReports(st)
        last == Len(reps) * show_iter
    IN  /\ Len(reps) = Min(Completed(st), st.burn_iter) \div show_iter
        /\ \A k \in 1 .. Len(reps) :
             /\ reps[k].Iter = k * show_iter
             /\ reps[k].of = [n \in 1 .. show_iter |-> (k - 1) * show_iter + n]
             /\ reps[k].MAPE = compute_mape(st.dense_test,
                  HeldOutMean(st, (k - 1) * show_iter + 1, k * show_iter, show_iter))
             /\ reps[k].RMSE = compute_rmse(st.dense_test,
                  HeldOutMean(st, (k - 1) * show_iter + 1, k * show_iter, show_iter))
        /\ st.in_temp = [n \in 1 .. Len(st.hist) - last |-> last + n]
        /\ \A j \in 1 .. Len(st.pos_test) :
             st.temp_hat[j] = SumHist(st.hist, st.pos_test[j], last + 1, Len(st.hist))
        /\ (st.pc = "for" /\ Len(reps) >= 1 /\ st.it = last) =>
             st.temp_hat = zeros_seq(Len(st.pos_test))
\* A call returned after two interim reports on a held-out position.
C12_Witness ==
  /\ st.pc = "done" /\ Len(IterReports(st)) = 2 /\ st.pos_test # <<>>
  /\ ~isnan(IterReports(st)[2].MAPE)
  /\ \E j \in 1 .. Len(st.pos_test) : st.temp_hat[j] # 0

\* The sum of e[p] over the positions of S.
RECURSIVE SumOver(_, _)
SumOver(S, e) ==
  IF S = {} THEN 0 ELSE LET p == CHOOSE q \in S : TRUE IN e[p] + SumOver(S \ {p}, e)
Observed(f) == {p \in Pos(f.dim) : f.ind[p]}
\* Other values for an unobserved entry of the sparse tensor and of the
\* reconstruction.
OtherSparse == {Cell(0), Cell(5)}
HatShifts == {0, 3}

\* C13: after sample_precision_tau the shape is 1e-6 + 0.5 * (number of
\* observed entries) and the rate 1e-6 + 0.5 * (sum over the observed
\* positions of (sparse - tensor_hat)^2); both are the same for any other
\* values of the two tensors at the unobserved positions; and the
\* reconstruction passed is the one of this sweep's U, V, X.
C13_TauObservedOnly ==
  (st.pc = "accumulate") =>
    LET obs == Observed(st)
        un == Pos(st.dim) \ obs
    IN  /\ st.var_alpha = [micro |-> 1, half |-> Cardinality(obs)]
        /\ st.var_beta =
             [micro |-> 1,
              half |-> SumOver(obs, [p \in obs |->
                         (Val(st.sparse_tensor[p]) - st.tensor_hat[p])
                         * (Val(st.sparse_tensor[p]) - st.tensor_hat[p])])]
        /\ \A sp \in [un -> OtherSparse] :
             \A ht \in [un -> HatShifts] :
               LET sparse2 == [p \in Pos(st.dim) |-> IF p \in un THEN sp[p] ELSE st.sparse_tensor[p]]
                   hat2 == [p \in Pos(st.dim) |->
                             IF p \in un THEN st.tensor_hat[p] + ht[p] ELSE st.tensor_hat[p]]
               IN  /\ var_alpha_of(st.ind, st.dim) = st.var_alpha
                   /\ var_beta_of(sparse2, hat2, st.ind, st.dim) = st.var_beta
        /\ st.tensor_hat = einsum(st.U, st.V, st.X)
        /\ st.rd.tau = <<[hat |-> Current(st)]>>
        /\ st.rd.hat = <<[U |-> {Current(st)}, V |-> {Current(st)}, X |-> {Current(st)}]>>
\* A second sweep with observed and unobserved entries, a nonzero
\* residual at an unobserved one and at an observed one.
C13_Witness ==
  /\ st.pc = "accumulate" /\ st.it >= 1
  /\ Observed(st) # {} /\ st.var_beta.half > 0
  /\ \E p \in Pos(st.dim) \ Observed(st) : st.tensor_hat[p] # Val(st.sparse_tensor[p])

\* C14: for every number of time steps d3 >= 1 a call of sample_factor_x
\* raises no IndexError, its passes are t = 0 .. d3 - 1 with the first
\* rule at t = 0, the last rule at a later t = d3 - 1 and the interior
\* rule elsewhere, and when it returns every row of X has been written in
\* this sweep.
C14_XInRange ==
  (Started(st) /\ WellFormed(st)) =>
    LET d3 == Len0(st.X)
        log == st.rd.xrow
    IN  /\ st.exc # "IndexError"
        /\ \A k \in 1 .. Len(log) :
             /\ log[k].t = k - 1
             /\ log[k].rule = IF k = 1 THEN "first" ELSE IF k = d3 THEN "last" ELSE "interior"
        /\ st.pc = "einsum" => Len(log) = d3 /\ Versions(st.verX) = {Current(st)}

====
